---- MODULE Spec2Model ----
(***************************************************************************)
(* photo-dedup: the quarantine ("trash") manager of review_server.py and   *)
(* the clustering / selection pass of dedup.py.                            *)
(*                                                                         *)
(* Spec      the review server: main(), the /remove and /undo handlers,    *)
(*           a process stop at any point, one external file creation.      *)
(* SpecSave  the review server with the /save handler next to /remove, so  *)
(*           that /save runs with files in quarantine; file operations may *)
(*           raise.                                                        *)
(* SpecScan  dedup.py: cluster_images, pick_best and the report loop, and  *)
(*           the review listing built from the written report.             *)
(***************************************************************************)
EXTENDS Integers, Sequences, FiniteSets, TLC

VARIABLES
    \* ---- review_server.py: file system --------------------------------
    fs,            \* original path -> content id, 0 when no file is there
    trash,         \* files of TRASH_DIR: set of <<name, content id>>
    trashDir,      \* TRASH_DIR exists
    diskManifest,  \* TRASH_DIR/manifest.json: [st, m], see NoFile, Truncated, Written
    \* ---- review_server.py: process -----------------------------------
    pc,            \* "down", "idle", "remove", "remove_write", "undo", "save"
    active,        \* requests inside do_POST
    manifest,      \* TRASH_MANIFEST: sequence of <<original, trash name>>
    queue,         \* /remove: the part of `files` not yet iterated
    moved,         \* /remove: moved
    snapshot,      \* /undo: the part of list(TRASH_MANIFEST.items()) not yet iterated
    restored,      \* /undo: restored
    result,        \* the last JSON response
    outDir,        \* files of OUTPUT_DIR: set of <<name, content id>>
    copied,        \* /save: copied
    \* ---- environment / history ----------------------------------------
    faults,        \* environment events so far: process stops, file operations
                   \* that raised, files created by another program
    extCount,      \* files created by another program so far
    cut,           \* history: a handler was left before its end (process stop
                   \* inside it, or a file operation that raised)
    performed,     \* history: the <<original, trash name>> moves /remove has done
    fresh,         \* history: main() has finished and no request was handled since
    rt,            \* history: the Remove ... Undo scenario in progress
    up,            \* history: the /undo pass in progress or just answered
    \* ---- dedup.py ------------------------------------------------------
    heif,          \* `from pillow_heif import register_heif_opener` succeeds
    image_hashes,  \* sequence of fingerprints, in dict order; file k is index k
    sizes,         \* st_size of file k
    threshold,     \* args.threshold
    spc,           \* "idle", "import", "exit", "scan", "cluster", "pick", "write",
                   \* "done", "error", "reviewed"
    clusters,      \* result of cluster_images
    todo,          \* main's loop over clusters: the clusters not yet visited
    unique_picks,  \* main's unique_picks
    duplicate_count, \* main's duplicate_count
    report_clusters, \* main's report_clusters
    picks,         \* history: cluster, best and dupes of each loop iteration
    report,        \* the report written by json.dump
    review         \* review_server.py build_html: the groups listed for review

ovars == <<outDir, copied>>
tvars == <<faults, fs, trash, trashDir, diskManifest, pc, manifest, queue, moved,
           snapshot, restored, result, extCount, performed, fresh, rt, up,
           cut, active, ovars>>
svars == <<heif, image_hashes, sizes, threshold, spc, clusters, todo,
           unique_picks, duplicate_count, report_clusters, picks, report, review>>
vars == <<tvars, svars>>

\* ------------------------------------------------------------------ bounds
\* longest `files` list of one /remove request
MaxBatch == 2
\* environment events in one run: process stops, file operations that raise,
\* files another program creates at an original path
MaxFaults == 1

\* ------------------------------------------------------------ paths, names
\* A file name is its stem as a sequence: <<0>> is "a.jpg", Append(s, k) is
\* f"{stem}_{k}{suffix}", so <<0, 1>> is "a_1.jpg".  Every file is a .jpg.
Path(d, s) == [dir |-> d, stem |-> s]

\* d1/a.jpg, d2/a.jpg (same base name) and d1/a_1.jpg (the name the first
\* collision suffix produces)
SrcPaths == {Path(1, <<0>>), Path(2, <<0>>), Path(1, <<0, 1>>)}

\* content of the file initially at p: 1, 2, 3
Content0(p) == IF p.stem = <<0>> THEN p.dir ELSE 3

\* content of the k-th externally created file
ExtContent(k) == 3 + k

Absent == 0

Range(s) == {s[i] : i \in 1..Len(s)}

Batches == UNION {[1..n -> SrcPaths] : n \in 0..MaxBatch}

\* ------------------------------------------------------ file system helpers
\* Path.exists() for a path inside TRASH_DIR
TrashExists(tr, name) == \E e \in tr : e[1] = name

TrashContent(tr, name) == (CHOOSE e \in tr : e[1] = name)[2]

\* review_server.py 782-786: the while loop over counter
RECURSIVE NextFree(_, _, _)
NextFree(stem, counter, tr) ==
    IF TrashExists(tr, Append(stem, counter))
    THEN NextFree(stem, counter + 1, tr)
    ELSE Append(stem, counter)

\* a destination without the collision handling
TrashDestNoSuffix(fpath, tr) == fpath.stem

\* review_server.py 779-786: trash_dest
TrashDest(fpath, tr) ==
    IF TrashExists(tr, fpath.stem) THEN NextFree(fpath.stem, 1, tr) ELSE fpath.stem

\* -------------------------------------------------------- manifest helpers
\* `m` is a dict kept as the sequence of its items, in insertion order
HasKey(m, k) == \E i \in 1..Len(m) : m[i][1] = k

\* TRASH_MANIFEST[k] = v: an existing key keeps its position
DictSet(m, k, v) ==
    IF HasKey(m, k)
    THEN [i \in 1..Len(m) |-> IF m[i][1] = k THEN <<k, v>> ELSE m[i]]
    ELSE Append(m, <<k, v>>)

\* TRASH_DIR/manifest.json: absent, truncated by open(..., 'w'), or written
NoFile == [st |-> "nofile", m |-> <<>>]

Truncated == [st |-> "truncated", m |-> <<>>]

Written(m) == [st |-> "written", m |-> m]

\* -------------------------------------------------------------- history
\* the moves done, kept for the entries that TRASH_MANIFEST or manifest.json
\* still holds
Prune(perf, m, d) == perf \cap (Range(m) \cup Range(d.m))

\* rt.phase: "none", "removing", "removed", "remove_failed", "interrupted",
\*           "undoing", "undone"
\* rt.how:   "direct" (no process stop since the Remove began), "restart"
\*           (stopped and started again between Remove and Undo),
\*           "interrupted" (stopped inside the Remove batch)
\* rt.S the paths requested, rt.before the files before the first batch,
\* rt.clean TRASH_MANIFEST was empty then, rt.done the paths moved,
\* rt.failed the path whose move raised
NoRT == [phase |-> "none", S |-> {}, before |-> <<>>, clean |-> FALSE,
         batches |-> 0, how |-> "none", done |-> {}, failed |-> {}]

\* up.state: "none", "running", "returned"; up.entries the items /undo
\* iterates, up.back the items whose file it moved back, up.hadFile
\* manifest.json existed when the pass began, up.ok the pass answered ok,
\* up.empty TRASH_MANIFEST was empty when the pass began, and for such a pass
\* up.fs, up.trash, up.dir the files and TRASH_DIR as they were then and
\* up.again the pass before it was of the same kind
NoUp == [state |-> "none", entries |-> <<>>, back |-> {}, hadFile |-> FALSE,
         ok |-> FALSE, empty |-> FALSE, fs |-> <<>>, trash |-> {},
         dir |-> FALSE, again |-> FALSE]

NoResult == [ok |-> FALSE, count |-> -1, kind |-> "none"]

\* ------------------------------------------------------------ dedup.py idle
ScanIdle ==
    /\ heif = TRUE
    /\ image_hashes = <<>>
    /\ sizes = <<>>
    /\ threshold = 0
    /\ spc = "idle"
    /\ clusters = <<>>
    /\ todo = <<>>
    /\ unique_picks = <<>>
    /\ duplicate_count = 0
    /\ report_clusters = <<>>
    /\ picks = <<>>
    /\ report = <<>>
    /\ review = <<>>

\* ------------------------------------------------------------------- Init
\* the process has not run main() yet; every photo is at its original path
TrashInit ==
    /\ fs = [p \in SrcPaths |-> Content0(p)]
    /\ trash = {}
    /\ trashDir = FALSE
    /\ diskManifest = NoFile
    /\ pc = "down"
    /\ manifest = <<>>
    /\ queue = <<>>
    /\ moved = 0
    /\ snapshot = <<>>
    /\ restored = 0
    /\ result = NoResult
    /\ faults = 0
    /\ extCount = 0
    /\ performed = {}
    /\ fresh = FALSE
    /\ rt = NoRT
    /\ up = NoUp
    /\ cut = FALSE
    /\ active = 0
    /\ outDir = {}
    /\ copied = 0

Init == TrashInit /\ ScanIdle

\* ------------------------------------------------------------------ main
\* a main() that starts with an empty TRASH_MANIFEST whatever is on disk
StartNoLoad ==
    /\ pc = "down"
    /\ diskManifest.st # "truncated"
    /\ manifest' = <<>>
    /\ pc' = "idle"
    /\ fresh' = TRUE
    /\ UNCHANGED <<fs, trash, trashDir, diskManifest, queue, moved, snapshot,
                   restored, result, faults, extCount, performed, rt, up,
                   cut, active>>
    /\ UNCHANGED <<ovars, svars>>

\* main() 869-889; json.load of a truncated manifest raises, and main()
\* never reaches serve_forever
Start ==
    /\ pc = "down"
    /\ diskManifest.st # "truncated"
    /\ manifest' = IF diskManifest.st = "written" THEN diskManifest.m ELSE <<>>
    /\ pc' = "idle"
    /\ fresh' = TRUE
    /\ UNCHANGED <<fs, trash, trashDir, diskManifest, queue, moved, snapshot,
                   restored, result, faults, extCount, performed, rt, up,
                   cut, active>>
    /\ UNCHANGED <<ovars, svars>>

\* --------------------------------------------------------------- /remove
\* a /remove taken up by a thread of its own (ThreadingHTTPServer), whatever
\* another handler is doing
RemoveBeginThreaded(files) ==
    /\ pc # "down"
    /\ pc' = "remove"
    /\ active' = active + 1
    /\ trashDir' = TRUE
    /\ moved' = 0
    /\ queue' = files
    /\ result' = NoResult
    /\ fresh' = FALSE
    /\ up' = NoUp
    /\ rt' = NoRT
    /\ UNCHANGED <<fs, trash, diskManifest, manifest, snapshot, restored,
                   faults, extCount, performed, cut>>
    /\ UNCHANGED <<ovars, svars>>

\* 769-775: the body is read, TRASH_DIR.mkdir, moved = 0; 887-889: the
\* server is an HTTPServer, whose serve_forever takes up a request when the
\* handler of the one before has returned
RemoveBegin(files) ==
    /\ pc = "idle"
    /\ pc' = "remove"
    /\ active' = active + 1
    /\ trashDir' = TRUE
    /\ moved' = 0
    /\ queue' = files
    /\ result' = NoResult
    /\ fresh' = FALSE
    /\ up' = NoUp
    /\ rt' = IF rt.phase = "removed" /\ rt.how = "direct"
             THEN [rt EXCEPT !.phase = "removing",
                             !.S = rt.S \cup Range(files),
                             !.batches = 2]
             ELSE [phase |-> "removing", S |-> Range(files), before |-> fs,
                   clean |-> (manifest = <<>>), batches |-> 1, how |-> "direct",
                   done |-> {}, failed |-> {}]
    /\ UNCHANGED <<fs, trash, diskManifest, manifest, snapshot, restored,
                   faults, extCount, performed, cut>>
    /\ UNCHANGED <<ovars, svars>>

\* the except branch of a handler: the response is {'ok': False, ...}
Failed == [ok |-> FALSE, count |-> -1, kind |-> "error"]

\* a loop body that records the entry before it moves the file
RemoveStepRecordFirst ==
    /\ pc = "remove"
    /\ queue # <<>>
    /\ LET fpath == Head(queue)
           dest == TrashDest(fpath, trash)
       IN  IF fs[fpath] = Absent
           THEN /\ queue' = Tail(queue)
                /\ UNCHANGED <<fs, trash, manifest, moved, pc, result,
                               faults, performed, rt, cut, active>>
           ELSE \/ /\ fs' = [fs EXCEPT ![fpath] = Absent]
                   /\ trash' = {e \in trash : e[1] # dest} \cup {<<dest, fs[fpath]>>}
                   /\ manifest' = DictSet(manifest, fpath, dest)
                   /\ moved' = moved + 1
                   /\ queue' = Tail(queue)
                   /\ performed' = Prune(performed \cup {<<fpath, dest>>},
                                          manifest', diskManifest)
                   /\ rt' = IF rt.phase = "removing"
                            THEN [rt EXCEPT !.done = rt.done \cup {fpath}]
                            ELSE NoRT
                   /\ UNCHANGED <<pc, result, faults, cut, active>>
                \/ /\ faults < MaxFaults
                   /\ faults' = faults + 1
                   /\ manifest' = DictSet(manifest, fpath, dest)
                   /\ pc' = "idle"
                   /\ queue' = <<>>
                   /\ moved' = 0
                   /\ result' = Failed
                   /\ rt' = IF rt.phase = "removing"
                            THEN [rt EXCEPT !.phase = "remove_failed",
                                            !.failed = {fpath}]
                            ELSE NoRT
                   /\ cut' = TRUE
                   /\ active' = active - 1
                   /\ UNCHANGED <<fs, trash, performed>>
    /\ UNCHANGED <<trashDir, diskManifest, snapshot, restored, extCount,
                   fresh, up>>
    /\ UNCHANGED <<ovars, svars>>

\* a loop body without `if fpath.exists()`: shutil.move of a missing file
\* raises, and the handler answers with the error
RemoveStepNoExistsCheck ==
    /\ pc = "remove"
    /\ queue # <<>>
    /\ LET fpath == Head(queue)
           dest == TrashDest(fpath, trash)
       IN  IF fs[fpath] = Absent
           THEN /\ pc' = "idle"
                /\ queue' = <<>>
                /\ moved' = 0
                /\ result' = Failed
                /\ rt' = NoRT
                /\ cut' = TRUE
                /\ active' = active - 1
                /\ UNCHANGED <<fs, trash, manifest, faults, performed>>
           ELSE /\ fs' = [fs EXCEPT ![fpath] = Absent]
                /\ trash' = {e \in trash : e[1] # dest} \cup {<<dest, fs[fpath]>>}
                /\ manifest' = DictSet(manifest, fpath, dest)
                /\ moved' = moved + 1
                /\ queue' = Tail(queue)
                /\ performed' = Prune(performed \cup {<<fpath, dest>>},
                                       manifest', diskManifest)
                /\ rt' = IF rt.phase = "removing"
                         THEN [rt EXCEPT !.done = rt.done \cup {fpath}]
                         ELSE NoRT
                /\ UNCHANGED <<pc, result, faults, cut, active>>
    /\ UNCHANGED <<trashDir, diskManifest, snapshot, restored, extCount,
                   fresh, up>>
    /\ UNCHANGED <<ovars, svars>>

\* 776-789, 797-800: one iteration of `for fpath_str in files`; shutil.move
\* either renames the file or raises, and a raise leaves the loop for the
\* except branch and the response
RemoveStep ==
    /\ pc = "remove"
    /\ queue # <<>>
    /\ LET fpath == Head(queue)
           dest == TrashDest(fpath, trash)
       IN  IF fs[fpath] = Absent
           THEN /\ queue' = Tail(queue)
                /\ UNCHANGED <<fs, trash, manifest, moved, pc, result,
                               faults, performed, rt, cut, active>>
           ELSE \/ /\ fs' = [fs EXCEPT ![fpath] = Absent]
                   /\ trash' = {e \in trash : e[1] # dest} \cup {<<dest, fs[fpath]>>}
                   /\ manifest' = DictSet(manifest, fpath, dest)
                   /\ moved' = moved + 1
                   /\ queue' = Tail(queue)
                   /\ performed' = Prune(performed \cup {<<fpath, dest>>},
                                          manifest', diskManifest)
                   /\ rt' = IF rt.phase = "removing"
                            THEN [rt EXCEPT !.done = rt.done \cup {fpath}]
                            ELSE NoRT
                   /\ UNCHANGED <<pc, result, faults, cut, active>>
                \/ /\ faults < MaxFaults
                   /\ faults' = faults + 1
                   /\ pc' = "idle"
                   /\ queue' = <<>>
                   /\ moved' = 0
                   /\ result' = Failed
                   /\ rt' = IF rt.phase = "removing"
                            THEN [rt EXCEPT !.phase = "remove_failed",
                                            !.failed = {fpath}]
                            ELSE NoRT
                   /\ cut' = TRUE
                   /\ active' = active - 1
                   /\ UNCHANGED <<fs, trash, manifest, performed>>
    /\ UNCHANGED <<trashDir, diskManifest, snapshot, restored, extCount,
                   fresh, up>>
    /\ UNCHANGED <<ovars, svars>>

\* 792-793: open(manifest_path, 'w') truncates the file before json.dump
\* writes it
RemoveOpen ==
    /\ pc = "remove"
    /\ queue = <<>>
    /\ diskManifest' = Truncated
    /\ pc' = "remove_write"
    /\ performed' = Prune(performed, manifest, Truncated)
    /\ UNCHANGED <<fs, trash, trashDir, manifest, queue, moved, snapshot,
                   restored, result, faults, extCount, fresh, rt, up,
                   cut, active>>
    /\ UNCHANGED <<ovars, svars>>

\* 794-800: json.dump, close, and the response
RemoveDump ==
    /\ pc = "remove_write"
    /\ diskManifest' = Written(manifest)
    /\ result' = [ok |-> TRUE, count |-> moved, kind |-> "remove"]
    /\ moved' = 0
    /\ pc' = "idle"
    /\ active' = active - 1
    /\ rt' = IF rt.phase = "removing" THEN [rt EXCEPT !.phase = "removed"] ELSE NoRT
    /\ UNCHANGED <<fs, trash, trashDir, manifest, queue, snapshot,
                   restored, faults, extCount, performed, fresh, up, cut>>
    /\ UNCHANGED <<ovars, svars>>

\* ----------------------------------------------------------------- /undo
\* 803-805: restored = 0, list(TRASH_MANIFEST.items()); 887-889 as for
\* /remove
UndoBegin ==
    /\ pc = "idle"
    /\ pc' = "undo"
    /\ active' = active + 1
    /\ restored' = 0
    /\ snapshot' = manifest
    /\ result' = NoResult
    /\ fresh' = FALSE
    /\ rt' = IF rt.phase \in {"removed", "interrupted"}
             THEN [rt EXCEPT !.phase = "undoing"]
             ELSE NoRT
    /\ up' = [state |-> "running", entries |-> manifest, back |-> {},
              hadFile |-> (diskManifest.st # "nofile"), ok |-> FALSE,
              empty |-> (manifest = <<>>),
              fs |-> IF manifest = <<>> THEN fs ELSE <<>>,
              trash |-> IF manifest = <<>> THEN trash ELSE {},
              dir |-> (manifest = <<>> /\ trashDir),
              again |-> (up.state = "returned" /\ up.ok /\ up.empty)]
    /\ UNCHANGED <<fs, trash, trashDir, diskManifest, manifest, queue, moved,
                   faults, extCount, performed, cut>>
    /\ UNCHANGED <<ovars, svars>>

\* 805-811, 822-825: one iteration of the loop over the items; shutil.move
\* replaces whatever is at original_path, or raises
UndoStep ==
    /\ pc = "undo"
    /\ snapshot # <<>>
    /\ LET original == Head(snapshot)[1]
           name == Head(snapshot)[2]
       IN  IF ~TrashExists(trash, name)
           THEN /\ snapshot' = Tail(snapshot)
                /\ UNCHANGED <<fs, trash, restored, pc, result, faults, rt, up,
                               cut, active>>
           ELSE \/ /\ fs' = [fs EXCEPT ![original] = TrashContent(trash, name)]
                   /\ trash' = {e \in trash : e[1] # name}
                   /\ restored' = restored + 1
                   /\ snapshot' = Tail(snapshot)
                   /\ up' = IF up.state = "running"
                            THEN [up EXCEPT !.back = up.back \cup {Head(snapshot)}]
                            ELSE NoUp
                   /\ UNCHANGED <<pc, result, faults, rt, cut, active>>
                \/ /\ faults < MaxFaults
                   /\ faults' = faults + 1
                   /\ pc' = "idle"
                   /\ snapshot' = <<>>
                   /\ restored' = 0
                   /\ result' = Failed
                   /\ rt' = NoRT
                   /\ up' = IF up.state = "running"
                            THEN [up EXCEPT !.state = "returned"]
                            ELSE NoUp
                   /\ cut' = TRUE
                   /\ active' = active - 1
                   /\ UNCHANGED <<fs, trash>>
    /\ UNCHANGED <<trashDir, diskManifest, manifest, queue, moved, extCount,
                   performed, fresh>>
    /\ UNCHANGED <<ovars, svars>>

\* an end of the pass that removes TRASH_DIR without asking whether it
\* exists: rmdir of a missing directory raises
UndoFinishRmdirUnchecked ==
    /\ pc = "undo"
    /\ snapshot = <<>>
    /\ manifest' = <<>>
    /\ diskManifest' = NoFile
    /\ trashDir' = IF trash = {} THEN FALSE ELSE trashDir
    /\ result' = IF trashDir
                 THEN [ok |-> TRUE, count |-> restored, kind |-> "undo"]
                 ELSE [ok |-> FALSE, count |-> -1, kind |-> "error"]
    /\ restored' = 0
    /\ pc' = "idle"
    /\ active' = active - 1
    /\ rt' = IF rt.phase = "undoing" THEN [rt EXCEPT !.phase = "undone"] ELSE NoRT
    /\ up' = IF up.state = "running"
             THEN [up EXCEPT !.state = "returned", !.ok = trashDir]
             ELSE NoUp
    /\ performed' = Prune(performed, manifest', diskManifest')
    /\ UNCHANGED <<fs, trash, queue, moved, snapshot, faults, extCount, fresh,
                   cut>>
    /\ UNCHANGED <<ovars, svars>>

\* an end of the pass that does not unlink manifest.json: TRASH_DIR still
\* holds that file when there is one, and is then not removed
UndoFinishNoUnlink ==
    /\ pc = "undo"
    /\ snapshot = <<>>
    /\ manifest' = <<>>
    /\ diskManifest' = diskManifest
    /\ trashDir' = IF trash = {} /\ diskManifest.st = "nofile" THEN FALSE ELSE trashDir
    /\ result' = [ok |-> TRUE, count |-> restored, kind |-> "undo"]
    /\ restored' = 0
    /\ pc' = "idle"
    /\ active' = active - 1
    /\ rt' = IF rt.phase = "undoing" THEN [rt EXCEPT !.phase = "undone"] ELSE NoRT
    /\ up' = IF up.state = "running"
             THEN [up EXCEPT !.state = "returned", !.ok = TRUE]
             ELSE NoUp
    /\ performed' = Prune(performed, manifest', diskManifest')
    /\ UNCHANGED <<fs, trash, queue, moved, snapshot, faults, extCount, fresh,
                   cut>>
    /\ UNCHANGED <<ovars, svars>>

\* 813-825: TRASH_MANIFEST.clear(), unlink of manifest.json, rmdir of an
\* empty TRASH_DIR, and the response
UndoFinish ==
    /\ pc = "undo"
    /\ snapshot = <<>>
    /\ manifest' = <<>>
    /\ diskManifest' = NoFile
    /\ trashDir' = IF trash = {} THEN FALSE ELSE trashDir
    /\ result' = [ok |-> TRUE, count |-> restored, kind |-> "undo"]
    /\ restored' = 0
    /\ pc' = "idle"
    /\ active' = active - 1
    /\ rt' = IF rt.phase = "undoing" THEN [rt EXCEPT !.phase = "undone"] ELSE NoRT
    /\ up' = IF up.state = "running"
             THEN [up EXCEPT !.state = "returned", !.ok = TRUE]
             ELSE NoUp
    /\ performed' = Prune(performed, manifest', diskManifest')
    /\ UNCHANGED <<fs, trash, queue, moved, snapshot, faults, extCount, fresh,
                   cut>>
    /\ UNCHANGED <<ovars, svars>>

\* ---------------------------------------------------------- environment
\* the process stops (kill, power loss, KeyboardInterrupt): memory is lost,
\* the files stay as they are
Crash ==
    /\ pc # "down"
    /\ faults < MaxFaults
    /\ faults' = faults + 1
    /\ pc' = "down"
    /\ active' = 0
    /\ cut' = (cut \/ pc # "idle")
    /\ manifest' = <<>>
    /\ queue' = <<>>
    /\ snapshot' = <<>>
    /\ moved' = 0
    /\ restored' = 0
    /\ result' = NoResult
    /\ fresh' = FALSE
    /\ up' = NoUp
    /\ rt' = IF pc = "idle" /\ rt.phase = "removed" /\ rt.how \in {"direct", "restart"}
             THEN [rt EXCEPT !.how = "restart"]
             ELSE IF pc \in {"remove", "remove_write"} /\ rt.phase = "removing"
                  THEN [rt EXCEPT !.phase = "interrupted", !.how = "interrupted"]
                  ELSE NoRT
    /\ performed' = Prune(performed, <<>>, diskManifest)
    /\ UNCHANGED <<fs, trash, trashDir, diskManifest, extCount>>
    /\ UNCHANGED <<ovars, svars>>

\* another program puts a new file at an original path that is free
ExtCreate(p) ==
    /\ faults < MaxFaults
    /\ faults' = faults + 1
    /\ fs[p] = Absent
    /\ fs' = [fs EXCEPT ![p] = ExtContent(extCount + 1)]
    /\ extCount' = extCount + 1
    /\ rt' = NoRT
    /\ up' = NoUp
    /\ UNCHANGED <<trash, trashDir, diskManifest, pc, manifest, queue, moved,
                   snapshot, restored, result, performed, fresh, cut, active>>
    /\ UNCHANGED <<ovars, svars>>

TrashNext ==
    \/ Start
    \/ \E files \in Batches : RemoveBegin(files)
    \/ RemoveStep
    \/ RemoveOpen
    \/ RemoveDump
    \/ UndoBegin
    \/ UndoStep
    \/ UndoFinish
    \/ Crash
    \/ \E p \in SrcPaths : ExtCreate(p)

Next == TrashNext

Spec == Init /\ [][Next]_vars

\* ----------------------------------------------------------------- /save
\* files OUTPUT_DIR holds at most; a /save that would go beyond is not sent
MaxSaved == 2

\* a destination without the collision handling
SaveDestNoSuffix(fpath, out) == fpath.stem

\* 748-755: dest, with the while loop over counter
SaveDest(fpath, out) ==
    IF TrashExists(out, fpath.stem) THEN NextFree(fpath.stem, 1, out) ELSE fpath.stem

\* 741-744: the body is read, OUTPUT_DIR.mkdir, copied = 0
SaveBegin(files) ==
    /\ pc = "idle"
    /\ Cardinality(outDir) + Len(files) <= MaxSaved
    /\ pc' = "save"
    /\ active' = active + 1
    /\ copied' = 0
    /\ queue' = files
    /\ result' = NoResult
    /\ fresh' = FALSE
    /\ rt' = NoRT
    /\ up' = NoUp
    /\ UNCHANGED <<fs, trash, trashDir, diskManifest, manifest, moved, snapshot,
                   restored, faults, extCount, performed, cut, outDir>>
    /\ UNCHANGED svars

\* 745-757, 764-766: one iteration of `for fpath_str in files`; shutil.copy2
\* writes dest or raises, and a raise leaves the loop for the except branch
\* and the response
SaveStep ==
    /\ pc = "save"
    /\ queue # <<>>
    /\ LET fpath == Head(queue)
           dest == SaveDest(fpath, outDir)
       IN  IF fs[fpath] = Absent
           THEN /\ queue' = Tail(queue)
                /\ UNCHANGED <<outDir, copied, pc, result, faults, cut, active>>
           ELSE \/ /\ outDir' = {e \in outDir : e[1] # dest} \cup {<<dest, fs[fpath]>>}
                   /\ copied' = copied + 1
                   /\ queue' = Tail(queue)
                   /\ UNCHANGED <<pc, result, faults, cut, active>>
                \/ /\ faults < MaxFaults
                   /\ faults' = faults + 1
                   /\ pc' = "idle"
                   /\ queue' = <<>>
                   /\ copied' = 0
                   /\ result' = Failed
                   /\ cut' = TRUE
                   /\ active' = active - 1
                   /\ UNCHANGED outDir
    /\ UNCHANGED <<fs, trash, trashDir, diskManifest, manifest, moved, snapshot,
                   restored, extCount, performed, fresh, rt, up>>
    /\ UNCHANGED svars

\* 758-766: the response after the loop
SaveEnd ==
    /\ pc = "save"
    /\ queue = <<>>
    /\ result' = [ok |-> TRUE, count |-> copied, kind |-> "save"]
    /\ copied' = 0
    /\ pc' = "idle"
    /\ active' = active - 1
    /\ UNCHANGED <<fs, trash, trashDir, diskManifest, manifest, queue, moved,
                   snapshot, restored, faults, extCount, performed, fresh, rt,
                   up, cut, outDir>>
    /\ UNCHANGED svars

SaveNext ==
    \/ Start
    \/ \E files \in Batches : RemoveBegin(files)
    \/ RemoveStep
    \/ RemoveOpen
    \/ RemoveDump
    \/ \E files \in Batches : SaveBegin(files)
    \/ SaveStep
    \/ SaveEnd

NextSave == SaveNext

SpecSave == Init /\ [][NextSave]_vars

\* ================================================================ dedup.py
\* files hashed in one scan
MaxFiles == 3
\* width of a fingerprint, in bits
HashBits == 2

\* st_size values; pick_best only compares them, so two values give every
\* pattern of "larger" and "equal" that decides its result
Sizes == {1, 2}

Fingerprints == 0..(2 ^ HashBits - 1)

\* args.threshold is any int; -1 joins nothing, HashBits joins everything
Thresholds == -1..HashBits

\* Path.name of file k: files 1 and 2 are a.jpg in two folders, the others
\* have names of their own
Name(k) == IF k <= 2 THEN 1 ELSE k

Bit(x, k) == (x \div (2 ^ k)) % 2

\* imagehash's __sub__: the number of differing bits
Distance(x, y) == Cardinality({k \in 0..(HashBits - 1) : Bit(x, k) # Bit(y, k)})

\* a membership test one bit too generous
JoinsOffByOne(hashes, t, a, b) == Distance(hashes[a], hashes[b]) <= t + 1

\* dedup.py 68-69: distance <= threshold, against the seed file_a
Joins(hashes, t, a, b) == Distance(hashes[a], hashes[b]) <= t

\* a visited set that is never added to
MarkNothing(visited, f) == visited

\* dedup.py 62, 71: visited.add
Mark(visited, f) == visited \cup {f}

\* a loop over j that compares file j with the member added last, so that
\* membership chains from member to member
RECURSIVE InnerLoopChained(_, _, _, _, _, _)
InnerLoopChained(hashes, t, a, j, cluster, visited) ==
    IF j > Len(hashes) THEN <<cluster, visited>>
    ELSE IF j \in visited THEN InnerLoopChained(hashes, t, a, j + 1, cluster, visited)
    ELSE IF Joins(hashes, t, cluster[Len(cluster)], j)
         THEN InnerLoopChained(hashes, t, a, j + 1, Append(cluster, j),
                               Mark(visited, j))
         ELSE InnerLoopChained(hashes, t, a, j + 1, cluster, visited)

\* dedup.py 64-71: the loop over j, returning <<cluster, visited>>
RECURSIVE InnerLoop(_, _, _, _, _, _)
InnerLoop(hashes, t, a, j, cluster, visited) ==
    IF j > Len(hashes) THEN <<cluster, visited>>
    ELSE IF j \in visited THEN InnerLoop(hashes, t, a, j + 1, cluster, visited)
    ELSE IF Joins(hashes, t, a, j)
         THEN InnerLoop(hashes, t, a, j + 1, Append(cluster, j), Mark(visited, j))
         ELSE InnerLoop(hashes, t, a, j + 1, cluster, visited)

\* a loop over i that puts each new cluster in front of the list
RECURSIVE OuterLoopPrepend(_, _, _, _, _)
OuterLoopPrepend(hashes, t, i, visited, acc) ==
    IF i > Len(hashes) THEN acc
    ELSE IF i \in visited THEN OuterLoopPrepend(hashes, t, i + 1, visited, acc)
    ELSE LET r == InnerLoop(hashes, t, i, i + 1, <<i>>, Mark(visited, i))
         IN  OuterLoopPrepend(hashes, t, i + 1, r[2], <<r[1]>> \o acc)

\* dedup.py 58-73: the loop over i
RECURSIVE OuterLoop(_, _, _, _, _)
OuterLoop(hashes, t, i, visited, acc) ==
    IF i > Len(hashes) THEN acc
    ELSE IF i \in visited THEN OuterLoop(hashes, t, i + 1, visited, acc)
    ELSE LET r == InnerLoop(hashes, t, i, i + 1, <<i>>, Mark(visited, i))
         IN  OuterLoop(hashes, t, i + 1, r[2], Append(acc, r[1]))

\* dedup.py 52-75
cluster_images(hashes, t) == OuterLoop(hashes, t, 1, {}, <<>>)

\* a max that keeps the last of several largest
RECURSIVE MaxLast(_, _, _, _)
MaxLast(cluster, sz, k, best) ==
    IF k > Len(cluster) THEN best
    ELSE MaxLast(cluster, sz, k + 1,
                 IF sz[cluster[k]] >= sz[best] THEN cluster[k] ELSE best)

pick_last(cluster, sz) == MaxLast(cluster, sz, 2, cluster[1])

\* Python's max(iterable, key=...): the first of several largest
RECURSIVE MaxFirst(_, _, _, _)
MaxFirst(cluster, sz, k, best) ==
    IF k > Len(cluster) THEN best
    ELSE MaxFirst(cluster, sz, k + 1,
                  IF sz[cluster[k]] > sz[best] THEN cluster[k] ELSE best)

\* dedup.py 78-80
pick_best(cluster, sz) == MaxFirst(cluster, sz, 2, cluster[1])

\* a duplicates list that keeps the representative
DupesAll(cluster, best) == cluster

\* dedup.py 139: [f for f in cluster if f != best]
Dupes(cluster, best) == SelectSeq(cluster, LAMBDA f : f # best)

Names(fs_) == [i \in 1..Len(fs_) |-> Name(fs_[i])]

\* a report left in the order of the loop
SortNone(cs) == cs

\* list.sort(key=count, reverse=True): stable, insertion of each cluster
\* after the clusters whose count is not smaller
RECURSIVE InsertByCount(_, _)
InsertByCount(sorted, c) ==
    IF sorted = <<>> THEN <<c>>
    ELSE IF Head(sorted).count >= c.count
         THEN <<Head(sorted)>> \o InsertByCount(Tail(sorted), c)
         ELSE <<c>> \o sorted

RECURSIVE SortByCount(_)
SortByCount(cs) ==
    IF cs = <<>> THEN <<>>
    ELSE InsertByCount(SortByCount(SubSeq(cs, 1, Len(cs) - 1)), cs[Len(cs)])

\* dedup.py is launched: pillow_heif is installed or not, args.threshold is
\* given, nothing is hashed yet; Pillow and imagehash are installed
ScanInit ==
    /\ heif \in BOOLEAN
    /\ image_hashes = <<>>
    /\ sizes = <<>>
    /\ threshold \in Thresholds
    /\ spc = "import"
    /\ clusters = <<>>
    /\ todo = <<>>
    /\ unique_picks = <<>>
    /\ duplicate_count = 0
    /\ report_clusters = <<>>
    /\ picks = <<>>
    /\ report = <<>>
    /\ review = <<>>

\* dedup.py 22-28: the import guard of pillow_heif; sys.exit(1) is the last
\* statement of the except branch
ImportModules ==
    /\ spc = "import"
    /\ spc' = IF heif THEN "scan" ELSE "exit"
    /\ UNCHANGED <<heif, image_hashes, sizes, threshold, clusters, todo,
                   unique_picks, duplicate_count, report_clusters, picks,
                   report, review>>
    /\ UNCHANGED tvars

\* dedup.py 109-125: the hashes dict, the files whose hash could be computed
\* in sorted path order, with the sizes stat() will report
ComputeHashes ==
    /\ spc = "scan"
    /\ \E n \in 0..MaxFiles :
          /\ image_hashes' \in [1..n -> Fingerprints]
          /\ sizes' \in [1..n -> Sizes]
    /\ spc' = "cluster"
    /\ UNCHANGED <<heif, threshold, clusters, todo, unique_picks,
                   duplicate_count, report_clusters, picks, report, review>>
    /\ UNCHANGED tvars

\* dedup.py 129
ClusterImages ==
    /\ spc = "cluster"
    /\ clusters' = cluster_images(image_hashes, threshold)
    /\ todo' = clusters'
    /\ spc' = "pick"
    /\ UNCHANGED <<heif, image_hashes, sizes, threshold, unique_picks,
                   duplicate_count, report_clusters, picks, report, review>>
    /\ UNCHANGED tvars

\* dedup.py 136-147: one iteration of `for cluster in clusters`
PickStep ==
    /\ spc = "pick"
    /\ todo # <<>>
    /\ LET cluster == Head(todo)
           best == pick_best(cluster, sizes)
           dupes == Dupes(cluster, best)
       IN  /\ unique_picks' = Append(unique_picks, best)
           /\ duplicate_count' = duplicate_count + Len(dupes)
           /\ report_clusters' = Append(report_clusters,
                  [selected |-> Name(best), selected_size |-> sizes[best],
                   duplicates |-> Names(dupes), count |-> Len(cluster)])
           /\ picks' = Append(picks,
                  [cluster |-> cluster, best |-> best, dupes |-> dupes])
    /\ todo' = Tail(todo)
    /\ UNCHANGED <<heif, image_hashes, sizes, threshold, spc, clusters, report, review>>
    /\ UNCHANGED tvars

\* dedup.py 150-166: the sort and the summary; the ratio line divides by
\* len(hashes)
SortReport ==
    /\ spc = "pick"
    /\ todo = <<>>
    /\ report_clusters' = SortByCount(report_clusters)
    /\ spc' = IF Len(image_hashes) = 0 THEN "error" ELSE "write"
    /\ UNCHANGED <<heif, image_hashes, sizes, threshold, clusters, todo,
                   unique_picks, duplicate_count, picks, report, review>>
    /\ UNCHANGED tvars

\* dedup.py 189-203
WriteReport ==
    /\ spc = "write"
    /\ report' = [total_scanned |-> Len(image_hashes),
                  unique_count |-> Len(unique_picks),
                  duplicate_count |-> duplicate_count,
                  threshold |-> threshold,
                  clusters |-> report_clusters]
    /\ spc' = "done"
    /\ UNCHANGED <<heif, image_hashes, sizes, threshold, clusters, todo,
                   unique_picks, duplicate_count, report_clusters, picks, review>>
    /\ UNCHANGED tvars

\* review_server.py 55, generate_review.py 61:
\* [c for c in clusters if c['count'] > 1]
ReviewWorthy(cs) == SelectSeq(cs, LAMBDA c : c.count > 1)

\* review_server.py 34-37: find_file returns the first match of
\* SOURCE_DIR.rglob(filename); the order of rglob is that of the directory
\* listing, so any file of that name may come first, the same one each time
Resolvers ==
    {r \in [{Name(k) : k \in 1..Len(image_hashes)} -> 1..Len(image_hashes)] :
        \A nm \in DOMAIN r : Name(r[nm]) = nm}

\* review_server.py 506-518: the photos of one group, every file found and
\* thumbnailed
Photos(c, r) ==
    LET all_names == <<c.selected>> \o c.duplicates
    IN  [i \in 1..Len(all_names) |->
            [fname |-> all_names[i], fpath |-> r[all_names[i]],
             is_best |-> (all_names[i] = c.selected)]]

\* review_server.py 53-58, 503-518 (generate_review.py 61-91): the report is
\* loaded again and the groups are built, the source directory being as the
\* scan saw it
BuildReview ==
    /\ spc = "done"
    /\ \E r \in Resolvers :
          LET groups == ReviewWorthy(report.clusters)
          IN  review' = [g \in 1..Len(groups) |->
                            [c |-> groups[g], photos |-> Photos(groups[g], r)]]
    /\ spc' = "reviewed"
    /\ UNCHANGED <<heif, image_hashes, sizes, threshold, clusters, todo,
                   unique_picks, duplicate_count, report_clusters, picks, report>>
    /\ UNCHANGED tvars

ScanNext ==
    \/ ImportModules
    \/ ComputeHashes
    \/ ClusterImages
    \/ PickStep
    \/ SortReport
    \/ WriteReport
    \/ BuildReview

InitScan == TrashInit /\ ScanInit

NextScan == ScanNext

SpecScan == InitScan /\ [][NextScan]_vars

\* ================================================================== claims
\* ---- review_server.py (Spec) ---------------------------------------------

\* the content that was at p before the Remove is in TRASH_DIR
Quarantined(p) == \E e \in trash : e[2] = rt.before[p]

\* an /undo has just answered ok, after one /remove batch that began with an
\* empty TRASH_MANIFEST and whose files all existed, with nothing in between
C1_Case ==
    /\ pc = "idle"
    /\ rt.phase = "undone"
    /\ rt.how = "direct"
    /\ rt.batches = 1
    /\ rt.clean
    /\ \A p \in rt.S : rt.before[p] # Absent

\* C1: Remove(S) of existing files from an empty manifest, followed by
\* Undo(), leaves every file of S at its original path with its content,
\* none of them in the quarantine directory, TRASH_MANIFEST empty and
\* manifest.json absent.
C1_RemoveUndoRoundTrip ==
    C1_Case =>
        /\ \A p \in rt.S : fs[p] = rt.before[p] /\ ~Quarantined(p)
        /\ manifest = <<>>
        /\ diskManifest = NoFile

C1_Witness ==
    /\ C1_Case
    /\ \E p, q \in rt.S : p # q /\ p.stem = q.stem

\* C2: when /undo has answered, an entry of the manifest it iterated is gone
\* from TRASH_MANIFEST exactly if the pass moved its file back, and
\* manifest.json was deleted only if every entry was moved back.
C2_UndoDropsExactlyRestored ==
    up.state = "returned" =>
        /\ \A e \in Range(up.entries) : (e \notin Range(manifest)) <=> (e \in up.back)
        /\ (up.hadFile /\ diskManifest.st = "nofile") => Range(up.entries) \subseteq up.back

\* C3: a Remove batch is cut by a process stop, the process is started
\* again and an Undo answers ok: every file the batch had moved is back at
\* its original path.
C3_InterruptedRemoveUndone ==
    (pc = "idle" /\ rt.phase = "undone" /\ rt.how = "interrupted") =>
        \A p \in rt.done : fs[p] = rt.before[p]

\* C4: in every state, the steps inside a Remove batch included, each entry
\* of manifest.json is a move that /remove has performed.
C4_DiskManifestOnlyPerformedMoves ==
    diskManifest.st = "written" => Range(diskManifest.m) \subseteq performed

\* inside a second batch: files moved, manifest.json still that of the first
C4_Witness ==
    /\ pc = "remove"
    /\ moved >= 1
    /\ diskManifest.st = "written"
    /\ diskManifest.m # <<>>
    /\ Len(manifest) > Len(diskManifest.m)

\* C5: when one move of a Remove batch raises, every other file of the
\* batch that existed is in quarantine and recorded in TRASH_MANIFEST and in
\* manifest.json when the handler answers.
C5_FailedMoveSkipped ==
    (pc = "idle" /\ rt.phase = "remove_failed") =>
        \A p \in rt.S \ rt.failed :
            rt.before[p] # Absent =>
                /\ fs[p] = Absent
                /\ Quarantined(p)
                /\ HasKey(manifest, p)
                /\ diskManifest.st = "written"
                /\ HasKey(diskManifest.m, p)

\* an /undo has just answered ok, after a /remove from an empty manifest,
\* a process stop and a start
C6_Case ==
    /\ pc = "idle"
    /\ rt.phase = "undone"
    /\ rt.how = "restart"
    /\ rt.clean

\* C6: after main() and before the first request, TRASH_MANIFEST equals the
\* manifest.json that exists; and Remove(S) from an empty manifest, a
\* restart and Undo() put every file of S that was moved back at its path.
C6_StartupLoadsManifest ==
    /\ (pc = "idle" /\ fresh /\ diskManifest.st = "written")
           => manifest = diskManifest.m
    /\ C6_Case => \A p \in rt.done : fs[p] = rt.before[p]

C6_Witness ==
    /\ C6_Case
    /\ Cardinality(rt.done) >= 2

\* two removed files share a base name, and the Undo that followed the
\* Remove(s) has answered ok
C10_Case ==
    /\ pc = "idle"
    /\ rt.phase = "undone"
    /\ rt.how = "direct"
    /\ \E p, q \in rt.done : p # q /\ p.stem = q.stem

\* C10: two files with the same base name, removed in one batch or in two
\* successive batches, are each back at their own original path with their
\* own content after the Undo that follows.
C10_SameBaseNameRestorable ==
    C10_Case =>
        \A p \in rt.done :
            (\E q \in rt.done : p # q /\ p.stem = q.stem) => fs[p] = rt.before[p]

\* ---- dedup.py (SpecScan) -------------------------------------------------

\* the positions <<cluster index, position>> of file k in `clusters`
Places(k) ==
    {<<c, i>> \in (1..Len(clusters)) \X (1..MaxFiles + 1) :
        i <= Len(clusters[c]) /\ clusters[c][i] = k}

\* C7: cluster_images puts each input file in exactly one cluster, once,
\* and returns no file that was not in the input.
C7_ClustersPartitionInput ==
    spc \notin {"idle", "cluster"} =>
        /\ \A k \in 1..Len(image_hashes) : Cardinality(Places(k)) = 1
        /\ \A c \in 1..Len(clusters) : Range(clusters[c]) \subseteq 1..Len(image_hashes)

C7_Witness ==
    /\ spc = "pick"
    /\ Len(clusters) >= 2
    /\ \E c \in 1..Len(clusters) : Len(clusters[c]) >= 2

\* C8: every member of a returned cluster is within the threshold of the
\* cluster's first member, its seed.
C8_MembersWithinThresholdOfSeed ==
    spc \notin {"idle", "cluster"} =>
        \A c \in 1..Len(clusters) : \A i \in 2..Len(clusters[c]) :
            Distance(image_hashes[clusters[c][1]], image_hashes[clusters[c][i]])
                <= threshold

\* a cluster of two or more, and a file further than the threshold from its
\* seed in another cluster
C8_Witness ==
    /\ spc = "pick"
    /\ \E c, d \in 1..Len(clusters) :
          /\ c # d
          /\ Len(clusters[c]) >= 2
          /\ \E i \in 1..Len(clusters[d]) :
                Distance(image_hashes[clusters[c][1]], image_hashes[clusters[d][i]])
                    > threshold

\* position of file f in a cluster
Pos(cluster, f) == CHOOSE i \in 1..Len(cluster) : cluster[i] = f

\* C9: the representative is a member of its cluster, no member is larger,
\* no earlier member is as large, and the duplicates are the other members
\* in cluster order.
C9_RepresentativeLargestEarliest ==
    \A n \in 1..Len(picks) :
        LET cl == picks[n].cluster
            best == picks[n].best
        IN  /\ best \in Range(cl)
            /\ \A f \in Range(cl) : sizes[f] <= sizes[best]
            /\ \A i \in 1..Len(cl) :
                  (sizes[cl[i]] = sizes[best] /\ cl[i] # best) => i > Pos(cl, best)
            /\ Range(picks[n].dupes) = Range(cl) \ {best}
            /\ Len(picks[n].dupes) = Len(cl) - 1
            /\ picks[n].cluster = clusters[n]

\* a cluster whose largest size is shared, the representative not being the
\* first member
C9_Witness ==
    \E n \in 1..Len(picks) :
        LET cl == picks[n].cluster
            best == picks[n].best
        IN  /\ Len(cl) >= 3
            /\ Pos(cl, best) = 2
            /\ sizes[cl[3]] = sizes[best]

\* ---- review_server.py (Spec), continued ----------------------------------

\* C11: when /undo comes to an entry whose original path holds a file, it
\* does not make the move: the file at the original path keeps its content,
\* the quarantined file stays in TRASH_DIR, and when the pass answers the
\* entry of a file still quarantined is still in TRASH_MANIFEST.
C11_UndoKeepsOccupant ==
    [][/\ (/\ pc = "undo"
           /\ snapshot # <<>>
           /\ TrashExists(trash, Head(snapshot)[2])
           /\ fs[Head(snapshot)[1]] # Absent
           /\ snapshot' = Tail(snapshot))
          => /\ fs'[Head(snapshot)[1]] = fs[Head(snapshot)[1]]
             /\ trash' = trash
       /\ (pc = "undo" /\ pc' = "idle" /\ result'.ok)
          => \A e \in Range(manifest) :
                 TrashExists(trash', e[2]) => e \in Range(manifest')]_vars

\* C12: an /undo that began with an empty TRASH_MANIFEST, TRASH_DIR existing
\* or not, answers ok with count 0 and leaves every file at its original
\* path and every file of TRASH_DIR as it was; so does the /undo that
\* follows it.
C12_UndoOfNothing ==
    (up.state = "returned" /\ up.empty) =>
        /\ result = [ok |-> TRUE, count |-> 0, kind |-> "undo"]
        /\ fs = up.fs
        /\ trash = up.trash

\* the second of two such passes has answered, TRASH_DIR being absent
C12_Witness ==
    /\ up.state = "returned"
    /\ up.empty
    /\ up.again
    /\ ~up.dir
    /\ pc = "idle"

\* C13: a /remove whose `files` is empty is refused before any I/O: it does
\* not create TRASH_DIR, it does not write manifest.json, and its response
\* is not a success.
C13_EmptyRemoveRejected ==
    [][/\ (pc = "idle" /\ pc' = "remove" /\ queue' = <<>>)
          => trashDir' = trashDir
       /\ (/\ pc \in {"remove", "remove_write"}
           /\ rt.phase = "removing"
           /\ rt.batches = 1
           /\ rt.S = {})
          => /\ diskManifest' = diskManifest
             /\ ~result'.ok]_vars

\* C14: the count of every /remove and /undo response, the response to a
\* batch in which a file operation raised included, is the number of files
\* the handler moved to TRASH_DIR, or moved back.
C14_CountIsActual ==
    /\ (pc = "idle" /\ rt.phase \in {"removed", "remove_failed"}
            /\ rt.how = "direct" /\ rt.batches = 1)
           => result.count = Cardinality(rt.done)
    /\ (pc = "idle" /\ up.state = "returned")
           => result.count = Cardinality(up.back)

\* ---- dedup.py and the review listing (SpecScan) --------------------------

\* the clusters of the scan with their representative and duplicates, in the
\* order of the written report, those of two or more files
ScannedGroups ==
    ReviewWorthy(SortByCount(
        [n \in 1..Len(picks) |->
            [count |-> Len(picks[n].cluster), best |-> picks[n].best,
             dupes |-> picks[n].dupes]]))

\* C15: the groups built from the written report are the clusters of the
\* scan that have two or more files, in report order, the first photo of a
\* group being the file the scan chose as representative and the others the
\* files the scan listed as its duplicates, whatever files were scanned.
C15_ReportRoundTrip ==
    spc = "reviewed" =>
        /\ Len(review) = Len(ScannedGroups)
        /\ \A g \in 1..Len(review) :
              LET ph == review[g].photos
                  files == <<ScannedGroups[g].best>> \o ScannedGroups[g].dupes
              IN  /\ Len(ph) = Len(files)
                  /\ \A i \in 1..Len(ph) :
                        /\ ph[i].fpath = files[i]
                        /\ ph[i].is_best = (i = 1)

\* number of clusters of the report with k files
WithCount(cs, k) == Cardinality({i \in 1..Len(cs) : cs[i].count = k})

\* C16: the clusters of the written report are in order of non-increasing
\* count, the clusters of one file are still among them, and the groups
\* listed for review are exactly the report's clusters of two or more files,
\* in report order.
C16_ReportOrderAndListing ==
    /\ spc \in {"done", "reviewed"} =>
          LET cs == report.clusters
          IN  /\ \A i, j \in 1..Len(cs) : i < j => cs[i].count >= cs[j].count
              /\ Len(cs) = Len(clusters)
              /\ \A k \in 1..(MaxFiles + 1) :
                    WithCount(cs, k)
                        = Cardinality({c \in 1..Len(clusters) : Len(clusters[c]) = k})
    /\ spc = "reviewed" =>
          LET cs == report.clusters
              idx == {i \in 1..Len(cs) : cs[i].count > 1}
          IN  /\ Len(review) = Cardinality(idx)
              /\ \A i \in idx :
                    review[Cardinality({j \in idx : j <= i})].c = cs[i]

\* the first cluster found has one file and a later one has more, so the
\* sort moved it; both are in the report and one group is listed
C16_Witness ==
    /\ spc = "reviewed"
    /\ Len(clusters) >= 2
    /\ Len(clusters[1]) = 1
    /\ Len(review) = 1
    /\ report.clusters[1].count >= 2
    /\ report.clusters[Len(report.clusters)].count = 1

\* ---- review_server.py (SpecSave) -----------------------------------------

\* C17: no step of /save changes a file at an original path, TRASH_DIR, a
\* file in it, TRASH_MANIFEST or manifest.json, and none removes or rewrites
\* a file OUTPUT_DIR already holds: a copy goes to a name that was free and
\* has the content of its source.
C17_SaveNonDestructive ==
    [][(pc = "save" \/ pc' = "save")
          => /\ fs' = fs
             /\ trash' = trash
             /\ trashDir' = trashDir
             /\ manifest' = manifest
             /\ diskManifest' = diskManifest
             /\ outDir \subseteq outDir'
             /\ copied' = copied + 1
                   => \E e \in outDir' \ outDir :
                          /\ e[2] = fs[Head(queue)]
                          /\ ~TrashExists(outDir, e[1])]_vars

\* inside a /save, files being quarantined: d2/a.jpg was copied as a_1.jpg
\* because OUTPUT_DIR held an a.jpg
C17_Witness ==
    /\ pc = "save"
    /\ copied >= 1
    /\ manifest # <<>>
    /\ trash # {}
    /\ <<<<0>>, 1>> \in outDir
    /\ <<<<0, 1>>, 2>> \in outDir

\* ---- review_server.py (Spec), continued ----------------------------------

\* C18: when /remove comes to a path with no file, the process not being
\* stopped and no other program creating a file at that moment, the handler
\* goes on with the rest of the batch: no entry is added to TRASH_MANIFEST,
\* the count is not raised, no file and nothing in TRASH_DIR changes, and no
\* error is answered.
C18_MissingSourceSkipped ==
    [][(/\ pc = "remove"
        /\ queue # <<>>
        /\ fs[Head(queue)] = Absent
        /\ pc' # "down"
        /\ fs' = fs)
          => /\ pc' = "remove"
             /\ queue' = Tail(queue)
             /\ manifest' = manifest
             /\ moved' = moved
             /\ trash' = trash
             /\ result' = result]_vars

\* a batch of two paths, one of them with no file when the batch began, has
\* answered ok with count 1
C18_Witness ==
    /\ pc = "idle"
    /\ rt.phase = "removed"
    /\ rt.batches = 1
    /\ Cardinality(rt.S) = 2
    /\ \E p \in rt.S : rt.before[p] = Absent
    /\ result = [ok |-> TRUE, count |-> 1, kind |-> "remove"]

\* C19: at most one request is inside do_POST at a time, so a /remove and an
\* /undo that arrive together run one after the other: while /undo iterates
\* no /remove has paths left or files counted, and between the first move of
\* a /remove and the end of its manifest write no /undo has taken its list
\* of items.
C19_HandlersSerialized ==
    /\ active \in {0, 1}
    /\ (active = 1) <=> (pc \in {"remove", "remove_write", "undo", "save"})
    /\ pc = "undo" => (queue = <<>> /\ moved = 0)
    /\ pc \in {"remove", "remove_write"} => (snapshot = <<>> /\ restored = 0)

\* an /undo iterating the entries that the /remove before it has written
C19_Witness ==
    /\ pc = "undo"
    /\ active = 1
    /\ rt.phase = "undoing"
    /\ snapshot # <<>>
    /\ diskManifest = Written(manifest)
    /\ restored >= 1

\* C20: when the server is idle after /remove, /undo and restarts, none of
\* them left before its end, every file of TRASH_DIR is the trash path of
\* exactly one entry of TRASH_MANIFEST; so a /remove of a path that already
\* has an entry leaves the file quarantined earlier with an entry.
C20_QuarantinedFilesTracked ==
    (pc = "idle" /\ ~cut) =>
        \A e \in trash :
            Cardinality({i \in 1..Len(manifest) : manifest[i][2] = e[1]}) = 1

\* ---- dedup.py (SpecScan), continued --------------------------------------

\* three files A, B, C were scanned, in that order, with B within the
\* threshold of A, C within the threshold of B, and C not within it of A
C21_Case ==
    /\ spc \notin {"idle", "cluster"}
    /\ Len(image_hashes) = 3
    /\ Distance(image_hashes[1], image_hashes[2]) <= threshold
    /\ Distance(image_hashes[2], image_hashes[3]) <= threshold
    /\ Distance(image_hashes[1], image_hashes[3]) > threshold

\* C21: for three files A, B, C in scan order with distance(A, B) <= t,
\* distance(B, C) <= t and distance(A, C) > t, cluster_images returns the
\* clusters [A, B] and [C]: B and C are within the threshold of each other
\* and in different clusters.
C21_SeedOnlyMembership ==
    C21_Case => clusters = <<<<1, 2>>, <<3>>>>

C21_Witness ==
    /\ C21_Case
    /\ spc = "pick"
    /\ threshold >= 1

\* ---- review_server.py (Spec), continued ----------------------------------

\* C22: when an /undo has answered ok, TRASH_MANIFEST is empty, manifest.json
\* does not exist, and TRASH_DIR exists exactly if a file is left in it; in
\* every state a TRASH_DIR that holds a file exists.
C22_UndoCleansUp ==
    /\ (pc = "idle" /\ result.ok /\ result.kind = "undo")
          => /\ manifest = <<>>
             /\ diskManifest = NoFile
             /\ trashDir <=> (trash # {})
    /\ (trash # {} \/ diskManifest.st # "nofile") => trashDir

\* an /undo that moved a file back has answered ok while a file with no
\* entry is left in TRASH_DIR
C22_Witness ==
    /\ pc = "idle"
    /\ result.ok
    /\ result.kind = "undo"
    /\ result.count >= 1
    /\ trash # {}
    /\ trashDir

\* ---- dedup.py (SpecScan), continued --------------------------------------

\* C23: when pillow_heif cannot be imported, dedup.py does not exit at its
\* import guards, and goes on to hash and cluster the files it can open.
C23_HeifOptional ==
    ~heif => spc # "exit"

\* the seed of the c-th cluster
Seed(c) == clusters[c][1]

\* C24: in the result of cluster_images the seeds of two different clusters
\* are more than the threshold apart; a member that is not a seed is within
\* the threshold of its seed, and of no seed that comes earlier in scan
\* order; the clusters are in the scan order of their seeds and the members
\* of a cluster are in scan order.
C24_ClusterStructure ==
    /\ \A c, d \in 1..Len(clusters) :
          c # d => Distance(image_hashes[Seed(c)], image_hashes[Seed(d)]) > threshold
    /\ \A c \in 1..Len(clusters) : \A i \in 2..Len(clusters[c]) :
          /\ Distance(image_hashes[Seed(c)], image_hashes[clusters[c][i]]) <= threshold
          /\ \A d \in 1..Len(clusters) :
                Distance(image_hashes[Seed(d)], image_hashes[clusters[c][i]]) <= threshold
                    => Seed(c) <= Seed(d)
    /\ \A c, d \in 1..Len(clusters) : c < d => Seed(c) < Seed(d)
    /\ \A c \in 1..Len(clusters) : \A i, j \in 1..Len(clusters[c]) :
          i < j => clusters[c][i] < clusters[c][j]

\* a member within the threshold of two seeds, in the cluster of the earlier
\* one, the later seed lying between that seed and the member in scan order
C24_Witness ==
    /\ spc = "pick"
    /\ \E c, d \in 1..Len(clusters) :
          /\ c < d
          /\ \E i \in 2..Len(clusters[c]) :
                /\ Seed(d) < clusters[c][i]
                /\ Distance(image_hashes[Seed(d)], image_hashes[clusters[c][i]])
                       <= threshold

\* the sum of the lengths of the duplicates lists of the clusters cs
RECURSIVE DuplicatesTotal(_)
DuplicatesTotal(cs) ==
    IF cs = <<>> THEN 0 ELSE Len(Head(cs).duplicates) + DuplicatesTotal(Tail(cs))

\* C25: in every written report unique_count is the number of cluster
\* objects, the count of each cluster is 1 + the length of its duplicates,
\* duplicate_count is the sum of the lengths of the duplicates lists, and
\* unique_count + duplicate_count = total_scanned.
C25_ReportCounts ==
    spc \in {"done", "reviewed"} =>
        /\ report.unique_count = Len(report.clusters)
        /\ \A c \in 1..Len(report.clusters) :
              report.clusters[c].count = 1 + Len(report.clusters[c].duplicates)
        /\ report.duplicate_count = DuplicatesTotal(report.clusters)
        /\ report.unique_count + report.duplicate_count = report.total_scanned

\* a written report with a cluster of one file and a cluster with duplicates
C25_Witness ==
    /\ spc = "done"
    /\ report.unique_count >= 2
    /\ report.duplicate_count >= 1
    /\ report.clusters[Len(report.clusters)].count = 1

====
